---- MODULE Spec2Model ----
(***************************************************************************)
(* Kanban board of src/script.js: the in-memory task store (state.tasks),  *)
(* its projection onto the three columns (renderBoard), the delete/clear   *)
(* undo closures carried by toasts, and the startup load from the remote   *)
(* "tasks" collection.                                                     *)
(*                                                                         *)
(* JavaScript objects and arrays are modelled by reference where the code  *)
(* shares them: a task object lives at an address of `heap`, state.tasks   *)
(* and the array captured by a clear-undo closure are sequences of         *)
(* addresses, and a closure whose captured array IS state.tasks is marked  *)
(* `alias`.  A task is a record whose domain is exactly the set of         *)
(* properties the JavaScript object has.                                   *)
(*                                                                         *)
(* Ten specifications share the handlers.  Spec is the page from its       *)
(* start: the load, the task modal, file drops, duplicates, drags,         *)
(* deletes, clears and their undo toasts.  SpecView is a loaded board      *)
(* under pinning, dragging and the view criteria (sort order, search,      *)
(* priority filter).  SpecUndo is the load, the drags and the undo         *)
(* closures with one more delete than Spec allows.  SpecSync is the        *)
(* creation of tasks and the answers of the remote collection.  SpecDrag   *)
(* is the drag gesture over a loaded board.  SpecToast is one toast and    *)
(* its timers.  SpecTheme is the theme, its keys and the export.           *)
(* SpecPointer is the insertion point computed under a drag.               *)
(* SpecDelete is the delete confirmation and the undo of deletes on a      *)
(* board of two tasks.  SpecToastFair is SpecToast with its timers firing. *)
(***************************************************************************)
EXTENDS Integers, Sequences, FiniteSets, TLC

VARIABLES
    heap,             \* address -> task object
    tasks,            \* state.tasks: sequence of addresses
    lastDeletedTask,  \* state.lastDeletedTask: <<>> (null) or <<snapshot>>
    filterQuery,      \* state.filterQuery
    priorityFilter,   \* state.priorityFilter
    sortOrder,        \* state.sortOrder
    board,            \* DOM.board after the last renderBoard: column -> cards
    form,             \* the task modal: [open, id]; id is form.dataset.id while the
                      \* modal is shown, and "" once it is closed (openModal sets it
                      \* again before any submit reads it)
    taskToDelete,     \* module variable taskToDelete ("" is null)
    toasts,           \* the toasts that carry an undo action, in order of creation
    loadState,        \* position of init()/loadTasksFromFirebase
    remote,           \* documents of the remote "tasks" collection
    creates,          \* the documents sent by addDoc, in order
    now,              \* Date.now()
    limits,           \* how many delete and clear toasts this run may raise
    theme,            \* the data-theme attribute, state.theme, the stored preference
                      \* and the system colour scheme
    exported,         \* the data object of the last exportBoard (<<>> before any)
    pointer,          \* a drop list under a drag: the boxes of its cards that are
                      \* not dragged, the pointer's clientY, and what
                      \* getDragAfterElement returned for them
    hist              \* history: the last handler that ran, and the store before it

vars == <<heap, tasks, lastDeletedTask, filterQuery, priorityFilter, sortOrder,
          board, form, taskToDelete, toasts, loadState, remote, creates, now,
          limits, theme, exported, pointer, hist>>

(***************************************************************************)
(* Bounds of the model.                                                    *)
(***************************************************************************)
MaxTime == 1      \* ids minted locally (each at a later Date.now())
MaxStore == 2     \* longest state.tasks
MaxDeletes == 1   \* delete toasts raised under Spec
MaxUndoDeletes == 2  \* delete toasts raised under SpecUndo
MaxClears == 1    \* clear toasts raised
MaxCreates == 1   \* addDoc requests sent
MaxView == 2      \* tasks on the board in SpecView
MaxLeaves == 2    \* mouseleave events on one toast
MaxCards == 3     \* cards of a drop list that are not being dragged
MaxPointerY == 9  \* largest clientY of a dragover event
CardGap == 1      \* distance between two cards of a list

(***************************************************************************)
(* Program constants.                                                      *)
(***************************************************************************)
COLUMNS == <<"todo", "progress", "done">>
Statuses == {COLUMNS[i] : i \in 1..Len(COLUMNS)}
DayMs == 86400000
NaNTime == -1     \* NaN, the getTime() of an Invalid Date
Null == <<>>

UntitledTask == <<"U","n","t","i","t","l","e","d"," ","T","a","s","k">>
CopySuffix == <<" ","(","C","o","p","y",")">>

(***************************************************************************)
(* Strings are sequences of characters.                                    *)
(***************************************************************************)
UpperChars == <<"A","B","C","D","E","F","G","H","I","J","K","L","M",
                "N","O","P","Q","R","S","T","U","V","W","X","Y","Z">>
LowerChars == <<"a","b","c","d","e","f","g","h","i","j","k","l","m",
                "n","o","p","q","r","s","t","u","v","w","x","y","z">>

LowerChar(c) ==
    IF \E i \in 1..Len(UpperChars) : UpperChars[i] = c
    THEN LowerChars[CHOOSE i \in 1..Len(UpperChars) : UpperChars[i] = c]
    ELSE c

toLowerCase(s) == [i \in 1..Len(s) |-> LowerChar(s[i])]

\* String.prototype.includes
includes(s, sub) ==
    \E k \in 0..(Len(s) - Len(sub)) :
        \A j \in 1..Len(sub) : s[k + j] = sub[j]

\* String.prototype.trim (the only white space used is " ")
RECURSIVE trimStart(_)
trimStart(s) == IF s # <<>> /\ Head(s) = " " THEN trimStart(Tail(s)) ELSE s
RECURSIVE trimEnd(_)
trimEnd(s) ==
    IF s # <<>> /\ s[Len(s)] = " " THEN trimEnd(SubSeq(s, 1, Len(s) - 1)) ELSE s
trim(s) == trimEnd(trimStart(s))

\* Number.prototype.toString of Date.now(): a string of digits
DateNowToString(n) == ToString(n)

(***************************************************************************)
(* Due dates.  A date input's value and a remote dueDate are strings       *)
(* "YYYY-MM-DD" (day d); the form stores new Date(str).getTime().          *)
(***************************************************************************)
NoDate == [kind |-> "null", v |-> 0]
EmptyDate == [kind |-> "empty", v |-> 0]    \* the empty string
DateStr(d) == [kind |-> "str", v |-> d]
DateMs(ms) == [kind |-> "ms", v |-> ms]
\* new Date(x).getTime() for a date string or a millisecond count
NewDateGetTime(x) == IF x.kind = "str" THEN x.v * DayMs ELSE x.v
\* truthiness of a dueDate (null, "" and 0 are falsy)
Truthy(x) == x.kind \in {"str", "ms"} /\ x.v # 0

(***************************************************************************)
(* Task objects.                                                           *)
(***************************************************************************)
Has(t, f) == f \in DOMAIN t
Pinned(t) == Has(t, "pinned") /\ t.pinned
Without(r, f) == [g \in DOMAIN r \ {f} |-> r[g]]

\* state.tasks as the sequence of task values
TaskList == [i \in 1..Len(tasks) |-> heap[tasks[i]]]
ListOf(h, s) == [i \in 1..Len(s) |-> h[s[i]]]
SeqRange(s) == {s[i] : i \in 1..Len(s)}
TaskIds == {heap[a].id : a \in SeqRange(tasks)}

\* state.tasks.find(t => t.id === id): the first match, 0 when undefined
FindIn(h, s, id) ==
    IF \E i \in 1..Len(s) : h[s[i]].id = id
    THEN s[CHOOSE i \in 1..Len(s) :
               h[s[i]].id = id /\ \A j \in 1..(i - 1) : h[s[j]].id # id]
    ELSE 0
Find(id) == FindIn(heap, tasks, id)

\* new object: the smallest address not in use
Alloc(h) == CHOOSE a \in 1..(Cardinality(DOMAIN h) + 1) : a \notin DOMAIN h

(***************************************************************************)
(* The projection: sortTasksByDueDate and renderBoard.                     *)
(***************************************************************************)
DueOf(t) == IF Has(t, "dueDate") THEN t.dueDate ELSE NoDate

\* the comparator of sortTasksByDueDate (order is "asc" or "desc")
DueDateCompare(a, b, order) ==
    LET dateA == IF Truthy(DueOf(a)) THEN NewDateGetTime(DueOf(a)) ELSE 0
        dateB == IF Truthy(DueOf(b)) THEN NewDateGetTime(DueOf(b)) ELSE 0
    IN  IF ~Truthy(DueOf(a)) /\ ~Truthy(DueOf(b)) THEN 0
        ELSE IF ~Truthy(DueOf(a)) THEN (IF order = "asc" THEN 1 ELSE -1)
        ELSE IF ~Truthy(DueOf(b)) THEN (IF order = "asc" THEN -1 ELSE 1)
        ELSE IF order = "asc" THEN dateA - dateB ELSE dateB - dateA

\* Array.prototype.sort is stable; one step of it: x goes right after the
\* last element of the sorted prefix that does not sort after x
InsertAfter(sorted, x, k) ==
    SubSeq(sorted, 1, k) \o <<x>> \o SubSeq(sorted, k + 1, Len(sorted))

RECURSIVE DueDateSort(_, _)
DueDateSort(s, order) ==
    IF s = <<>> THEN <<>>
    ELSE LET front == DueDateSort(SubSeq(s, 1, Len(s) - 1), order)
             x == s[Len(s)]
             ok == {i \in 1..Len(front) : DueDateCompare(front[i], x, order) <= 0}
             k == IF ok = {} THEN 0 ELSE CHOOSE i \in ok : \A j \in ok : j <= i
         IN  InsertAfter(front, x, k)

\* sortTasksByDueDate(tasks, order): a sorted copy of the array
sortTasksByDueDate(s, order) ==
    IF order = "none" THEN s ELSE DueDateSort(s, order)

\* ToNumber of an array of task objects: the array becomes the string of its
\* elements joined by ",", "[object Object],..." for objects, and that
\* string is not numeric unless it is empty
ArrayToNumber(arr) ==
    IF arr = <<>> THEN [nan |-> FALSE, v |-> 0] ELSE [nan |-> TRUE, v |-> 0]

\* the comparator without its pinned test
RenderCompareFnNoPin(a, b, order) ==
    IF order # "none" THEN ArrayToNumber(sortTasksByDueDate(<<a, b>>, order))
    ELSE [nan |-> FALSE, v |-> 0]

\* the comparator renderBoard hands to columnTasks.sort
RenderCompareFn(a, b, order) ==
    IF Pinned(a) /\ ~Pinned(b) THEN [nan |-> FALSE, v |-> -1]
    ELSE IF ~Pinned(a) /\ Pinned(b) THEN [nan |-> FALSE, v |-> 1]
    ELSE IF order # "none" THEN ArrayToNumber(sortTasksByDueDate(<<a, b>>, order))
    ELSE [nan |-> FALSE, v |-> 0]

\* Array.prototype.sort reads a comparator's result through ToNumber and
\* takes NaN as +0
RenderCompare(a, b, order) ==
    LET r == RenderCompareFn(a, b, order) IN IF r.nan THEN 0 ELSE r.v

RECURSIVE RenderSort(_, _)
RenderSort(s, order) ==
    IF s = <<>> THEN <<>>
    ELSE LET front == RenderSort(SubSeq(s, 1, Len(s) - 1), order)
             x == s[Len(s)]
             ok == {i \in 1..Len(front) : RenderCompare(front[i], x, order) <= 0}
             k == IF ok = {} THEN 0 ELSE CHOOSE i \in ok : \A j \in ok : j <= i
         IN  InsertAfter(front, x, k)

\* a search that looks at the title only
MatchesSearchTitleOnly(t, q) ==
    \/ q = <<>>
    \/ includes(toLowerCase(t.title), toLowerCase(q))

\* the filter of renderBoard for column col
MatchesSearch(t, q) ==
    \/ q = <<>>
    \/ includes(toLowerCase(t.title), toLowerCase(q))
    \/ /\ Has(t, "description") /\ t.description # <<>>
       /\ includes(toLowerCase(t.description), toLowerCase(q))

\* toLowerCase of a priority: the values the page and the collection use
\* are in lower case already, and a capitalised one is folded
PriorityToLowerCase(p) ==
    CASE p = "High" -> "high"
      [] p = "Medium" -> "medium"
      [] p = "Low" -> "low"
      [] OTHER -> p

MatchesPriority(t, pf) ==
    \/ pf = "all"
    \/ Has(t, "priority") /\ PriorityToLowerCase(t.priority) = pf

InColumn(t, col, q, pf) ==
    t.status = col /\ MatchesSearch(t, q) /\ MatchesPriority(t, pf)

RECURSIVE ColumnFilter(_, _, _, _)
ColumnFilter(s, col, q, pf) ==
    IF s = <<>> THEN <<>>
    ELSE (IF InColumn(Head(s), col, q, pf) THEN <<Head(s)>> ELSE <<>>)
             \o ColumnFilter(Tail(s), col, q, pf)

\* the cards of column col, in display order
ColumnTasks(s, col, q, pf, order) == RenderSort(ColumnFilter(s, col, q, pf), order)

\* renderBoard(): the board rebuilt from the task list s and the criteria
renderBoard(s, q, pf, order) ==
    [col \in Statuses |-> ColumnTasks(s, col, q, pf, order)]

EmptyBoard == [col \in Statuses |-> <<>>]
CardIds == UNION {{board[c][i].id : i \in 1..Len(board[c])} : c \in Statuses}

(***************************************************************************)
(* Inputs: what the user types or drops, and what the remote collection    *)
(* holds when the page opens.                                              *)
(***************************************************************************)
FormTitles == {<<" ">>}
FormStatuses == {"progress"}
FormDescriptions == {<<>>}
FormPriorities == {"high"}
FormDueDates == {DateStr(1)}
FormSubtasks == {<<[text |-> <<"s">>, completed |-> FALSE]>>}
DroppedFiles ==
    {<<[name |-> <<"n", ".", "t">>, size |-> 1, type |-> "text/plain",
        lastModified |-> 0]>>}
ForeignId == "x"     \* a dragged text that is no task id

\* a document of the older writer (src/firebase-config.js), which has no
\* description and no priority
Doc1 == [id |-> "r1", title |-> <<"c">>, status |-> "todo",
         dueDate |-> EmptyDate, createdAt |-> 0]
RemoteInits == {<<>>, <<Doc1>>}

(***************************************************************************)
(* The heap.                                                               *)
(***************************************************************************)
RECURSIVE Refs(_)
\* every reference the closures of the toasts hold, in order
Refs(tsts) == IF tsts = <<>> THEN <<>> ELSE Head(tsts).prev \o Refs(Tail(tsts))

RECURSIVE FirstSeen(_, _)
\* the addresses of s in order of first occurrence
FirstSeen(s, seen) ==
    IF s = <<>> THEN <<>>
    ELSE IF Head(s) \in seen THEN FirstSeen(Tail(s), seen)
    ELSE <<Head(s)>> \o FirstSeen(Tail(s), seen \cup {Head(s)})

\* state.tasks.push(x) / unshift(x) also change a captured array that is
\* the same array object
PushAliased(tsts, a) ==
    [i \in 1..Len(tsts) |->
        IF tsts[i].alias THEN [tsts[i] EXCEPT !.prev = Append(@, a)] ELSE tsts[i]]
UnshiftAliased(tsts, a) ==
    [i \in 1..Len(tsts) |->
        IF tsts[i].alias THEN [tsts[i] EXCEPT !.prev = <<a>> \o @] ELSE tsts[i]]
\* state.tasks = <a new array>: no captured array is state.tasks any more
Unalias(tsts) == [i \in 1..Len(tsts) |-> [tsts[i] EXCEPT !.alias = FALSE]]

\* the store after a handler: heap, state.tasks and the toasts' closures.
\* Objects no array refers to are dropped, and the live ones are numbered
\* in the order state.tasks and the closures reach them (an address is only
\* an object's identity)
SetStore(h, ts, tsts) ==
    LET live == FirstSeen(ts \o Refs(tsts), {})
        addr(a) == CHOOSE i \in 1..Len(live) : live[i] = a
        move(s) == [i \in 1..Len(s) |-> addr(s[i])]
    IN  /\ tasks' = move(ts)
        /\ toasts' = [i \in 1..Len(tsts) |-> [tsts[i] EXCEPT !.prev = move(@)]]
        /\ heap' = [i \in 1..Len(live) |-> h[live[i]]]

\* a render that keeps the cards it built last time while the store holds
\* tasks of the same ids
RenderWithCache(q, pf, order) ==
    board' = IF {heap'[a].id : a \in SeqRange(tasks')} = TaskIds /\ TaskIds # {}
             THEN board
             ELSE renderBoard(ListOf(heap', tasks'), q, pf, order)

\* renderBoard() at the end of a handler, under the criteria q, pf, order
RenderWith(q, pf, order) == board' = renderBoard(ListOf(heap', tasks'), q, pf, order)
Render == RenderWith(filterQuery, priorityFilter, sortOrder)

\* history: a delete, a clear or the completion of the load is recorded with
\* the task list before it, and so is the undo of a delete or a clear that
\* follows it directly; the submit of the edit form of a task of the store is
\* recorded by its name; any other handler leaves NoOp
NoOp == [op |-> "other", pre |-> <<>>, after |-> "other"]
OpPre(name) == [op |-> name, pre |-> TaskList, after |-> "other"]

(***************************************************************************)
(* ThemeManager: the theme is the data-theme attribute of the document      *)
(* element; state.theme is evaluated once, when the script is loaded.       *)
(***************************************************************************)
THEMES == {"light", "dark"}
NoItem == ""      \* localStorage.getItem of a key that is not set

\* the initializer of state.theme
StateTheme(stored) == IF stored # NoItem THEN stored ELSE "light"

getSavedThemePreference(th) == IF th.stored # NoItem THEN th.stored ELSE th.system

\* setTheme(theme, savePreference)
setTheme(th, t, savePreference) ==
    LET valid == IF t \in THEMES THEN t ELSE "light"
    IN  [th EXCEPT !.attr = valid,
                   !.stored = IF savePreference THEN valid ELSE @]

\* toggleTheme()
toggleTheme(th) == setTheme(th, IF th.attr = "light" THEN "dark" ELSE "light", TRUE)

\* the theme after the script is loaded and ThemeManager.init() has run, for
\* a stored preference and a system colour scheme
ThemeAfterInit(stored, system) ==
    LET loaded == [attr |-> NoItem, state |-> StateTheme(stored), stored |-> stored,
                   system |-> system]
    IN  setTheme(loaded, getSavedThemePreference(loaded), FALSE)

DefaultTheme == ThemeAfterInit(NoItem, "light")

\* e.key.toLowerCase() of the keys pressed
ToLowerCase(key) == IF key = "T" THEN "t" ELSE key

(***************************************************************************)
(* exportBoard: JSON.stringify writes null for NaN.                         *)
(***************************************************************************)
JsonNull == "null"
NoExport == <<>>

JSONStringifyTask(task) ==
    [f \in DOMAIN task |->
        IF f \in {"createdAt", "updatedAt"} /\ task[f] = NaNTime THEN JsonNull
        ELSE task[f]]

JSONStringifyTasks(list) == [i \in 1..Len(list) |-> JSONStringifyTask(list[i])]

(***************************************************************************)
(* getDragAfterElement(container, y): the cards of the list that are not    *)
(* dragged are boxes [top, height] in document order; the result is the     *)
(* index of the card returned, 0 for undefined.  Offsets are kept doubled,  *)
(* so that box.height / 2 stays an integer.                                 *)
(***************************************************************************)
NEGATIVE_INFINITY == [inf |-> TRUE, v |-> 0]
Finite(v) == [inf |-> FALSE, v |-> v]
Greater(a, b) == ~a.inf /\ (b.inf \/ a.v > b.v)

\* 2 * (y - box.top - box.height / 2)
Offset(box, y) == 2 * y - 2 * box.top - box.height

\* the test of the reducer with offset <= 0
CloserOrAtMidpoint(offset, closest) ==
    offset <= 0 /\ Greater(Finite(offset), closest.offset)

\* offset < 0 && offset > closest.offset
Closer(offset, closest) == offset < 0 /\ Greater(Finite(offset), closest.offset)

RECURSIVE ReduceFrom(_, _, _, _)
ReduceFrom(boxes, y, i, closest) ==
    IF i > Len(boxes) THEN closest
    ELSE LET offset == Offset(boxes[i], y)
         IN  ReduceFrom(boxes, y, i + 1,
                        IF Closer(offset, closest)
                        THEN [offset |-> Finite(offset), element |-> i]
                        ELSE closest)

getDragAfterElement(boxes, y) ==
    ReduceFrom(boxes, y, 1, [offset |-> NEGATIVE_INFINITY, element |-> 0]).element

NoPointer == [boxes |-> <<>>, y |-> 0, called |-> FALSE, afterElement |-> 0]

(***************************************************************************)
(* The state after the script is evaluated, before DOMContentLoaded.       *)
(***************************************************************************)
Init ==
    /\ heap = <<>>
    /\ tasks = <<>>
    /\ lastDeletedTask = Null
    /\ filterQuery = <<>>
    /\ priorityFilter = "all"
    /\ sortOrder = "none"
    /\ board = EmptyBoard
    /\ form = [open |-> FALSE, id |-> ""]
    /\ taskToDelete = ""
    /\ toasts = <<>>
    /\ loadState = "notStarted"
    /\ remote \in RemoteInits
    /\ creates = <<>>
    /\ now = 0
    /\ limits = [deletes |-> MaxDeletes, clears |-> MaxClears]
    /\ theme = DefaultTheme
    /\ exported = NoExport
    /\ pointer = NoPointer
    /\ hist = NoOp

Started == loadState # "notStarted"

\* a dialog is shown: its overlay covers the board (a click outside the
\* dialog lands on the overlay), so the board takes no pointer event
ModalShown == form.open \/ taskToDelete # ""
BoardReady == Started /\ ~ModalShown

(***************************************************************************)
(* init() and loadTasksFromFirebase().                                     *)
(***************************************************************************)
\* init(): clears the store, renders, and starts the load, which clears the
\* store again and then waits for getDocs
InitApp ==
    /\ loadState = "notStarted"
    /\ SetStore(heap, <<>>, Unalias(toasts))
    /\ Render
    /\ loadState' = "inFlight"
    /\ hist' = NoOp
    /\ UNCHANGED <<limits, theme, exported, pointer, lastDeletedTask, filterQuery, priorityFilter, sortOrder, form,
                   taskToDelete, remote, creates, now>>

\* the task object built with the status read from a field no document has
LoadedTaskWrongField(doc, t) ==
    [id |-> doc.id,
     title |-> doc.title,
     status |-> "undefined",
     dueDate |-> IF Has(doc, "dueDate") /\ Truthy(doc.dueDate) THEN doc.dueDate ELSE NoDate,
     createdAt |-> IF Has(doc, "createdAt") THEN NaNTime ELSE t,
     description |-> IF Has(doc, "description") THEN doc.description ELSE <<>>,
     priority |-> IF Has(doc, "priority") THEN doc.priority ELSE "medium",
     pinned |-> FALSE,
     subtasks |-> <<>>,
     files |-> <<>>]

\* the task object loadTasksFromFirebase builds from a document
LoadedTask(doc, t) ==
    [id |-> doc.id,
     title |-> doc.title,
     status |-> doc.status,
     dueDate |-> IF Has(doc, "dueDate") /\ Truthy(doc.dueDate) THEN doc.dueDate ELSE NoDate,
     createdAt |-> IF Has(doc, "createdAt") THEN NaNTime ELSE t,
     description |-> IF Has(doc, "description") THEN doc.description ELSE <<>>,
     priority |-> IF Has(doc, "priority") THEN doc.priority ELSE "medium",
     pinned |-> FALSE,
     subtasks |-> <<>>,
     files |-> <<>>]

RECURSIVE PushDocs(_, _, _, _, _)
\* querySnapshot.forEach: one new task object pushed per document
PushDocs(h, ts, tsts, docs, t) ==
    IF docs = <<>> THEN [h |-> h, ts |-> ts, tsts |-> tsts]
    ELSE LET a == Alloc(h)
         IN  PushDocs(a :> LoadedTask(Head(docs), t) @@ h, Append(ts, a),
                      PushAliased(tsts, a), Tail(docs), t)

\* getDocs resolves and the documents replace the store
LoadDoneOverwrite ==
    /\ loadState = "inFlight"
    /\ Len(remote) <= MaxStore
    /\ LET r == PushDocs(heap, <<>>, Unalias(toasts), remote, now)
       IN  SetStore(r.h, r.ts, r.tsts)
    /\ Render
    /\ loadState' = "done"
    /\ hist' = OpPre("load")
    /\ UNCHANGED <<limits, theme, exported, pointer, lastDeletedTask, filterQuery, priorityFilter, sortOrder, form,
                   taskToDelete, remote, creates, now>>

\* getDocs resolves: the documents are pushed onto state.tasks as it is now
LoadDone ==
    /\ loadState = "inFlight"
    /\ Len(tasks) + Len(remote) <= MaxStore
    /\ LET r == PushDocs(heap, tasks, toasts, remote, now)
       IN  SetStore(r.h, r.ts, r.tsts)
    /\ Render
    /\ loadState' = "done"
    /\ hist' = OpPre("load")
    /\ UNCHANGED <<limits, theme, exported, pointer, lastDeletedTask, filterQuery, priorityFilter, sortOrder, form,
                   taskToDelete, remote, creates, now>>

\* a catch block that resets the store
LoadFailClearsStore ==
    /\ loadState = "inFlight"
    /\ SetStore(heap, <<>>, Unalias(toasts))
    /\ Render
    /\ loadState' = "failed"
    /\ hist' = NoOp
    /\ UNCHANGED <<limits, theme, exported, pointer, lastDeletedTask, filterQuery, priorityFilter, sortOrder, form,
                   taskToDelete, remote, creates, now>>

\* getDocs rejects: the catch block logs the error
LoadFail ==
    /\ loadState = "inFlight"
    /\ loadState' = "failed"
    /\ hist' = NoOp
    /\ UNCHANGED <<limits, theme, exported, pointer, heap, tasks, lastDeletedTask, filterQuery, priorityFilter,
                   sortOrder, board, form, taskToDelete, toasts, remote, creates, now>>

(***************************************************************************)
(* saveTaskToFirebase: the document sent.  The answer to addDoc changes    *)
(* nothing on the page (a failure is only logged).                         *)
(***************************************************************************)
SavedDoc(title, status, dueDate, description, priority, t) ==
    [title |-> title,
     status |-> status,
     dueDate |-> IF Truthy(dueDate) THEN dueDate ELSE EmptyDate,
     description |-> description,
     priority |-> priority,
     createdAt |-> t]

\* an addDoc call: the document, the id of the local task the same submit
\* pushed, and the answer (pending, then ok with the id the collection
\* generated for the document, or failed)
AddDocRequest(doc, taskId) ==
    [doc |-> doc, task |-> taskId, answer |-> "pending", docId |-> ""]

\* the ids the collection generates: 20 letters and digits, where a local id
\* is the decimal string of Date.now()
GeneratedIds == {"g1"}

\* addDoc resolves: the collection holds the document under a generated id;
\* saveTaskToFirebase drops the returned reference
AddDocDone(i, docId) ==
    /\ Started
    /\ i \in 1..Len(creates)
    /\ creates[i].answer = "pending"
    /\ docId \notin {remote[k].id : k \in 1..Len(remote)}
    /\ remote' = Append(remote, [id |-> docId] @@ creates[i].doc)
    /\ creates' = [creates EXCEPT ![i].answer = "ok", ![i].docId = docId]
    /\ hist' = NoOp
    /\ UNCHANGED <<limits, theme, exported, pointer, heap, tasks, lastDeletedTask, filterQuery, priorityFilter,
                   sortOrder, board, form, taskToDelete, toasts, loadState, now>>

\* addDoc rejects: the catch block logs the error
AddDocFail(i) ==
    /\ Started
    /\ i \in 1..Len(creates)
    /\ creates[i].answer = "pending"
    /\ creates' = [creates EXCEPT ![i].answer = "failed"]
    /\ hist' = NoOp
    /\ UNCHANGED <<limits, theme, exported, pointer, heap, tasks, lastDeletedTask, filterQuery, priorityFilter,
                   sortOrder, board, form, taskToDelete, toasts, loadState, remote, now>>

(***************************************************************************)
(* The task modal and handleFormSubmit.                                    *)
(***************************************************************************)
\* openModal(taskId, status): taskId is "" for a new task
OpenModal(taskId) ==
    /\ BoardReady
    /\ taskId \in CardIds \cup {""}
    /\ form' = [open |-> TRUE, id |-> taskId]
    /\ hist' = NoOp
    /\ UNCHANGED <<limits, theme, exported, pointer, heap, tasks, lastDeletedTask, filterQuery, priorityFilter,
                   sortOrder, board, taskToDelete, toasts, loadState, remote,
                   creates, now>>

CloseModal ==
    /\ Started
    /\ form.open
    /\ form' = [open |-> FALSE, id |-> ""]
    /\ hist' = NoOp
    /\ UNCHANGED <<limits, theme, exported, pointer, heap, tasks, lastDeletedTask, filterQuery, priorityFilter,
                   sortOrder, board, taskToDelete, toasts, loadState, remote,
                   creates, now>>

\* taskData of handleFormSubmit; existing is <<>> or <<the task found>>
TaskData(id, title, description, priority, status, dueDate, subtasks, existing, t) ==
    [id |-> id,
     title |-> IF title # <<>> THEN title ELSE UntitledTask,
     description |-> description,
     priority |-> priority,
     status |-> status,
     dueDate |-> IF Truthy(dueDate) THEN DateMs(NewDateGetTime(dueDate)) ELSE NoDate,
     pinned |-> existing # <<>> /\ Pinned(existing[1]),
     subtasks |-> IF Len(subtasks) > 0 THEN subtasks
                  ELSE IF existing # <<>> /\ Has(existing[1], "subtasks")
                       THEN existing[1].subtasks ELSE <<>>,
     files |-> IF existing # <<>> /\ Has(existing[1], "files")
               THEN existing[1].files ELSE <<>>,
     updatedAt |-> t]

\* handleFormSubmit: the five fields and the subtask list are read from the form
HandleFormSubmit(rawTitle, rawDescription, priority, status, dueDate, subtasks) ==
    /\ Started
    /\ form.open
    /\ form.id = "" => now < MaxTime
    /\ LET t == IF form.id = "" THEN now + 1 ELSE now
           id == IF form.id # "" THEN form.id ELSE DateNowToString(t)
           title == trim(rawTitle)
           description == trim(rawDescription)
           found == Find(id)
           existing == IF found = 0 THEN <<>> ELSE <<heap[found]>>
           taskData == TaskData(id, title, description, priority, status, dueDate,
                                subtasks, existing, t)
       IN  /\ now' = t
           /\ IF found # 0
              THEN \* Object.assign(existingTask, taskData)
                   /\ SetStore([heap EXCEPT ![found] = taskData @@ @], tasks, toasts)
                   /\ UNCHANGED creates
              ELSE LET a == Alloc(heap)
                   IN  /\ Len(tasks) < MaxStore
                       /\ Len(creates) < MaxCreates
                       /\ SetStore(a :> ([createdAt |-> t] @@ taskData) @@ heap,
                                   Append(tasks, a), PushAliased(toasts, a))
                       /\ creates' = Append(creates, AddDocRequest(
                              SavedDoc(title, status, dueDate, description, priority, t),
                              id))
           /\ hist' = IF found # 0 THEN [NoOp EXCEPT !.op = "edit"] ELSE NoOp
    /\ Render
    /\ form' = [open |-> FALSE, id |-> ""]
    /\ UNCHANGED <<limits, theme, exported, pointer, lastDeletedTask, filterQuery, priorityFilter, sortOrder,
                   taskToDelete, loadState, remote>>

(***************************************************************************)
(* handleFileDrop, duplicateTask, togglePin, updateTaskStatus.             *)
(***************************************************************************)
\* files[0].name.split('.')[0]
RECURSIVE BeforeDot(_)
BeforeDot(name) ==
    IF name = <<>> \/ Head(name) = "." THEN <<>>
    ELSE <<Head(name)>> \o BeforeDot(Tail(name))

FileInfo(file) ==
    [name |-> file.name, size |-> file.size, type |-> file.type,
     lastModified |-> file.lastModified,
     url |-> IF file.type \in {"image/png"} THEN "blob:" ELSE "#"]

\* the value of the element with id taskId: nothing in the script sets it
TaskIdField == ""

\* handleFileDrop with a non-empty file list
HandleFileDrop(files) ==
    /\ BoardReady
    /\ Len(files) > 0
    /\ LET found == IF TaskIdField # "" THEN Find(TaskIdField) ELSE 0
           infos == [i \in 1..Len(files) |-> FileInfo(files[i])]
       IN  IF found # 0
           THEN /\ SetStore([heap EXCEPT ![found] = [files |-> (IF Has(@, "files")
                                   THEN @.files ELSE <<>>) \o infos] @@ @], tasks, toasts)
                /\ now' = now
           ELSE LET a == Alloc(heap)
                    t == now + 1
                    newTask == [id |-> DateNowToString(t),
                                title |-> BeforeDot(files[1].name),
                                description |-> <<"A","d","d","e","d"," ">> \o <<ToString(Len(files))>>
                                                \o <<" ","f","i","l","e","(","s",")">>,
                                status |-> "todo",
                                priority |-> "medium",
                                files |-> infos,
                                createdAt |-> t]
                IN  /\ now < MaxTime
                    /\ Len(tasks) < MaxStore
                    /\ SetStore(a :> newTask @@ heap, Append(tasks, a),
                                PushAliased(toasts, a))
                    /\ now' = t
    /\ Render
    /\ hist' = NoOp
    /\ UNCHANGED <<limits, theme, exported, pointer, lastDeletedTask, filterQuery, priorityFilter, sortOrder, form,
                   taskToDelete, loadState, remote, creates>>

\* duplicateTask(id): the id is that of a card's duplicate button
DuplicateTask(id) ==
    /\ BoardReady
    /\ id \in CardIds
    /\ LET found == Find(id)
       IN  IF found = 0
           THEN UNCHANGED <<heap, tasks, toasts, board, now>>
           ELSE LET a == Alloc(heap)
                    t == now + 1
                    copy == heap[found]     \* JSON.parse(JSON.stringify(task))
                    newTask == [id |-> DateNowToString(t), createdAt |-> t,
                                updatedAt |-> t,
                                title |-> IF includes(copy.title, CopySuffix)
                                          THEN copy.title
                                          ELSE copy.title \o CopySuffix] @@ copy
                IN  /\ now < MaxTime
                    /\ Len(tasks) < MaxStore
                    /\ SetStore(a :> newTask @@ heap, <<a>> \o tasks,
                                UnshiftAliased(toasts, a))
                    /\ now' = t
                    /\ Render
    /\ hist' = NoOp
    /\ UNCHANGED <<limits, theme, exported, pointer, lastDeletedTask, filterQuery, priorityFilter, sortOrder, form,
                   taskToDelete, loadState, remote, creates>>

\* togglePin(id): the id is that of a card's pin button
TogglePin(id) ==
    /\ BoardReady
    /\ id \in CardIds
    /\ LET found == Find(id)
       IN  IF found = 0
           THEN UNCHANGED <<heap, tasks, toasts, board>>
           ELSE /\ SetStore([heap EXCEPT ![found] = [pinned |-> ~Pinned(@)] @@ @],
                            tasks, toasts)
                /\ Render
    /\ hist' = NoOp
    /\ UNCHANGED <<limits, theme, exported, pointer, lastDeletedTask, filterQuery, priorityFilter, sortOrder, form,
                   taskToDelete, loadState, remote, creates, now>>

\* updateTaskStatus that also stamps the task
updateTaskStatusTouch(id, status) ==
    LET found == Find(id)
    IN  IF found = 0
        THEN UNCHANGED <<heap, tasks, toasts, board>>
        ELSE /\ SetStore([heap EXCEPT ![found] = [status |-> status, updatedAt |-> now + 1] @@ @],
                         tasks, toasts)
             /\ Render

\* updateTaskStatus(id, status)
updateTaskStatus(id, status) ==
    LET found == Find(id)
    IN  IF found = 0
        THEN UNCHANGED <<heap, tasks, toasts, board>>
        ELSE /\ SetStore([heap EXCEPT ![found] = [status |-> status] @@ @],
                         tasks, toasts)
             /\ Render

\* saveEdit of the card built from the task object at address a, with raw
\* typed into the card's title input: a non-empty new title is written to the
\* task object and to the card's title text, without a render
InlineEdit(a, raw) ==
    /\ BoardReady
    /\ a \in SeqRange(tasks)
    /\ \E c \in Statuses : \E k \in 1..Len(board[c]) : board[c][k] = heap[a]
    /\ LET newTitle == trim(raw)
           edited == [title |-> newTitle] @@ heap[a]
       IN  IF newTitle # <<>> /\ newTitle # heap[a].title
           THEN /\ SetStore([heap EXCEPT ![a] = edited], tasks, toasts)
                /\ board' = [c \in Statuses |->
                                [k \in 1..Len(board[c]) |->
                                    IF board[c][k] = heap[a] THEN edited
                                    ELSE board[c][k]]]
           ELSE UNCHANGED <<heap, tasks, toasts, board>>
    /\ hist' = NoOp
    /\ UNCHANGED <<limits, theme, exported, pointer, lastDeletedTask, filterQuery, priorityFilter, sortOrder, form,
                   taskToDelete, loadState, remote, creates, now>>

\* the drop handler of a task list: id is the dragged text, a card's id
\* unless the drag started outside the board
Drop(id, zone) ==
    /\ BoardReady
    /\ id \in CardIds \cup {ForeignId}
    /\ zone \in Statuses
    /\ updateTaskStatus(id, zone)
    /\ hist' = NoOp
    /\ UNCHANGED <<limits, theme, exported, pointer, lastDeletedTask, filterQuery, priorityFilter, sortOrder, form,
                   taskToDelete, loadState, remote, creates, now>>

\* what is dragged over a task list: the card at <<column, index>> of the
\* board, which its dragstart marked "dragging", or something that is no
\* card (a file, a selection, a link), which marks nothing
ForeignDrag == <<>>

\* the card at index k of column c put into column zone after its first pos
\* cards
MoveCard(b, c, k, zone, pos) ==
    LET without == [b EXCEPT ![c] = SubSeq(@, 1, k - 1) \o SubSeq(@, k + 1, Len(@))]
    IN  [without EXCEPT ![zone] = InsertAfter(@, b[c][k], pos)]

\* the dragstart handler of the card at index k of column c: the card's id
\* goes into the dataTransfer and the card is marked "dragging"
DragStart(c, k) ==
    /\ BoardReady
    /\ c \in Statuses
    /\ k \in 1..Len(board[c])
    /\ hist' = [op |-> "dragstart", pre |-> <<>>, after |-> "ok"]
    /\ UNCHANGED <<limits, theme, exported, pointer, heap, tasks, lastDeletedTask, filterQuery, priorityFilter,
                   sortOrder, board, form, taskToDelete, toasts, loadState, remote,
                   creates, now>>

\* a dragover handler that already writes the list's status to the task
DragOverSetsStatus(src, zone, pos) ==
    /\ BoardReady
    /\ zone \in Statuses
    /\ src # ForeignDrag
    /\ src[1] \in Statuses
    /\ src[2] \in 1..Len(board[src[1]])
    /\ pos \in 0..(Len(board[zone]) - (IF zone = src[1] THEN 1 ELSE 0))
    /\ LET found == Find(board[src[1]][src[2]].id)
       IN  SetStore([heap EXCEPT ![found] = [status |-> zone] @@ @], tasks, toasts)
    /\ board' = MoveCard(board, src[1], src[2], zone, pos)
    /\ hist' = [op |-> "dragover", pre |-> <<>>, after |-> "ok"]
    /\ UNCHANGED <<limits, theme, exported, pointer, lastDeletedTask, filterQuery, priorityFilter, sortOrder, form,
                   taskToDelete, loadState, remote, creates, now>>

\* the dragover handler of the task list of column zone: the card marked
\* "dragging" is put before the card the pointer is above (after pos cards),
\* or at the end.  With no card marked, querySelector gives null and
\* insertBefore / appendChild throw a TypeError nothing catches
DragOver(src, zone, pos) ==
    /\ BoardReady
    /\ zone \in Statuses
    /\ IF src = ForeignDrag
       THEN /\ pos \in 0..Len(board[zone])
            /\ UNCHANGED board
            /\ hist' = [op |-> "dragover", pre |-> <<>>, after |-> "TypeError"]
       ELSE /\ src[1] \in Statuses
            /\ src[2] \in 1..Len(board[src[1]])
            /\ pos \in 0..(Len(board[zone]) - (IF zone = src[1] THEN 1 ELSE 0))
            /\ board' = MoveCard(board, src[1], src[2], zone, pos)
            /\ hist' = [op |-> "dragover", pre |-> <<>>, after |-> "ok"]
    /\ UNCHANGED <<limits, theme, exported, pointer, heap, tasks, lastDeletedTask, filterQuery, priorityFilter,
                   sortOrder, form, taskToDelete, toasts, loadState, remote, creates,
                   now>>

\* the dragend handler of a card: renderBoard()
DragEnd ==
    /\ BoardReady
    /\ CardIds # {}
    /\ SetStore(heap, tasks, toasts)
    /\ Render
    /\ hist' = NoOp
    /\ UNCHANGED <<limits, theme, exported, pointer, lastDeletedTask, filterQuery, priorityFilter, sortOrder, form,
                   taskToDelete, loadState, remote, creates, now>>

(***************************************************************************)
(* Deletion, clearBoard and the undo closures of their toasts.             *)
(***************************************************************************)
\* a delete button that removes the card's task at once, with no confirmation
ShowDeleteConfirmationDeletes(id) ==
    /\ BoardReady
    /\ id \in CardIds
    /\ taskToDelete' = ""
    /\ LET kept == SelectSeq(tasks, LAMBDA a : heap[a].id # id)
       IN  /\ heap' = [k \in 1..Len(kept) |-> heap[kept[k]]]
           /\ tasks' = [k \in 1..Len(kept) |-> k]
           /\ board' = renderBoard(ListOf(heap', tasks'), filterQuery, priorityFilter,
                                   sortOrder)
    /\ hist' = NoOp
    /\ UNCHANGED <<limits, theme, exported, pointer, lastDeletedTask, filterQuery, priorityFilter,
                   sortOrder, form, toasts, loadState, remote, creates, now>>

\* showDeleteConfirmation(id): the id is that of a card's delete button
ShowDeleteConfirmation(id) ==
    /\ BoardReady
    /\ id \in CardIds
    /\ taskToDelete' = id
    /\ hist' = NoOp
    /\ UNCHANGED <<limits, theme, exported, pointer, heap, tasks, lastDeletedTask, filterQuery, priorityFilter,
                   sortOrder, board, form, toasts, loadState, remote, creates, now>>

\* hideDeleteConfirmation(), from the cancel button
HideDeleteConfirmation ==
    /\ Started
    /\ taskToDelete # ""
    /\ taskToDelete' = ""
    /\ hist' = NoOp
    /\ UNCHANGED <<limits, theme, exported, pointer, heap, tasks, lastDeletedTask, filterQuery, priorityFilter,
                   sortOrder, board, form, toasts, loadState, remote, creates, now>>

\* Escape: closeModal() and hideDeleteConfirmation()
EscapeKey ==
    /\ Started
    /\ form.open \/ taskToDelete # ""
    /\ form' = [open |-> FALSE, id |-> ""]
    /\ taskToDelete' = ""
    /\ hist' = NoOp
    /\ UNCHANGED <<limits, theme, exported, pointer, heap, tasks, lastDeletedTask, filterQuery, priorityFilter,
                   sortOrder, board, toasts, loadState, remote, creates, now>>

RECURSIVE RemoveId(_, _, _)
\* state.tasks.filter(task => task.id !== id)
RemoveId(h, s, id) ==
    IF s = <<>> THEN <<>>
    ELSE (IF h[Head(s)].id # id THEN <<Head(s)>> ELSE <<>>) \o RemoveId(h, Tail(s), id)

\* a toast with an undo button: its closure (prev, alias), whether it is in
\* the DOM, and whether its undo button has been activated
\* Its timers that call hideToast are numbered as setTimeout made them: 1 is
\* the auto-hide timer (the constant timeoutId of showToast), the others are
\* the timers of its mouseleave handler; timers holds the pending ones and
\* timeoutId is the property toast.timeoutId
UndoToast(kind, prev) ==
    [kind |-> kind, prev |-> prev, alias |-> FALSE, inDOM |-> TRUE, used |-> FALSE,
     timers |-> {1}, timeoutId |-> 1, nextTimer |-> 2, hover |-> FALSE,
     hiding |-> FALSE, raisedFor |-> ""]

\* a hideToast that starts the fade and never takes the element out
hideToastKeepsElement(toast) ==
    [toast EXCEPT !.timers = @ \ {toast.timeoutId}]

\* hideToast(toast): clearTimeout(toast.timeoutId), the fade starts (and the
\* removal is scheduled)
hideToast(toast) ==
    [toast EXCEPT !.timers = @ \ {toast.timeoutId}, !.hiding = TRUE]
\* the number of toasts of a kind raised so far
Raised(kind) == Cardinality({i \in 1..Len(toasts) : toasts[i].kind = kind})

\* deleteTask(id)
deleteTask(id) ==
    LET found == Find(id)
    IN  IF found = 0
        THEN UNCHANGED <<heap, tasks, toasts, board, lastDeletedTask>>
        ELSE /\ Raised("delete") < limits.deletes
             /\ lastDeletedTask' = <<[deletedAt |-> now] @@ heap[found]>>
             /\ SetStore(heap, RemoveId(heap, tasks, id),
                         Append(Unalias(toasts),
                                [UndoToast("delete", <<>>) EXCEPT !.raisedFor = id]))
             /\ Render

\* the click handler of the confirm button of the delete confirmation
ConfirmDelete ==
    /\ Started
    /\ taskToDelete # ""
    /\ deleteTask(taskToDelete)
    /\ taskToDelete' = ""
    /\ hist' = IF Find(taskToDelete) = 0 THEN NoOp ELSE OpPre("delete")
    /\ UNCHANGED <<limits, theme, exported, pointer, filterQuery, priorityFilter, sortOrder, form, loadState, remote,
                   creates, now>>

\* clearBoard taking its snapshot after it has emptied the store
ClearBoardLateSnapshot ==
    /\ BoardReady
    /\ Raised("clear") < limits.clears
    /\ SetStore(heap, <<>>, Append(Unalias(toasts), UndoToast("clear", <<>>)))
    /\ Render
    /\ hist' = OpPre("clear")
    /\ UNCHANGED <<limits, theme, exported, pointer, lastDeletedTask, filterQuery, priorityFilter, sortOrder, form,
                   taskToDelete, loadState, remote, creates, now>>

\* clearBoard(), the click handler of the confirm button of the clear confirmation
ClearBoard ==
    /\ BoardReady
    /\ Raised("clear") < limits.clears
    /\ SetStore(heap, <<>>, Append(Unalias(toasts), UndoToast("clear", tasks)))
    /\ Render
    /\ hist' = OpPre("clear")
    /\ UNCHANGED <<limits, theme, exported, pointer, lastDeletedTask, filterQuery, priorityFilter, sortOrder, form,
                   taskToDelete, loadState, remote, creates, now>>

\* a toast that left the DOM: its closure is garbage
Removed(toast) ==
    [kind |-> toast.kind, prev |-> <<>>, alias |-> FALSE, inDOM |-> FALSE,
     used |-> toast.used,
     timers |-> {}, timeoutId |-> 1, nextTimer |-> 2, hover |-> FALSE,
     hiding |-> FALSE, raisedFor |-> ""]

\* the undo button of toast i has been activated: after undoAction() its
\* handler calls hideToast(toast)
Activated(tsts, i) == [tsts EXCEPT ![i] = hideToast([@ EXCEPT !.used = TRUE])]

\* the undo closure of deleteTask
UndoDelete(i) ==
    IF lastDeletedTask # Null
    THEN LET a == Alloc(heap)
             task == Without(lastDeletedTask[1], "deletedAt")
         IN  /\ Len(tasks) < MaxStore
             /\ SetStore(a :> task @@ heap, Append(tasks, a),
                         PushAliased(Activated(toasts, i), a))
             /\ Render
             /\ lastDeletedTask' = Null
    ELSE /\ SetStore(heap, tasks, Activated(toasts, i))
         /\ UNCHANGED <<board, lastDeletedTask>>

\* the undo closure of clearBoard: state.tasks = previousTasks
UndoClear(i) ==
    /\ SetStore(heap, toasts[i].prev,
                [Unalias(Activated(toasts, i)) EXCEPT ![i].alias = TRUE])
    /\ Render
    /\ UNCHANGED lastDeletedTask

\* a click on the undo button of toast i, which is in the DOM.  The handler
\* ends with hideToast(toast), which only starts the 300 ms fade: the toast
\* stays in the DOM, and its button stays live, until ToastRemove
UndoClick(i) ==
    /\ i \in 1..Len(toasts)
    /\ toasts[i].inDOM
    /\ IF toasts[i].kind = "delete" THEN UndoDelete(i) ELSE UndoClear(i)
    /\ hist' = IF hist.op \in {"delete", "clear"} /\ i = Len(toasts)
               THEN [op |-> "undo", pre |-> hist.pre, after |-> hist.op]
               ELSE NoOp
    /\ UNCHANGED <<limits, theme, exported, pointer, filterQuery, priorityFilter, sortOrder, form, taskToDelete,
                   loadState, remote, creates, now>>

\* hideToast(toast) has run (from the auto-hide timer, the close button or
\* the undo button) and its 300 ms timer fires: the toast leaves the DOM
ToastRemove(i) ==
    /\ i \in 1..Len(toasts)
    /\ toasts[i].inDOM
    /\ SetStore(heap, tasks, [toasts EXCEPT ![i] = Removed(@)])
    /\ hist' = NoOp
    /\ UNCHANGED <<limits, theme, exported, pointer, lastDeletedTask, filterQuery, priorityFilter, sortOrder, board,
                   form, taskToDelete, loadState, remote, creates, now>>

(***************************************************************************)
(* The timers of a toast: auto-hide, hover, close.                         *)
(***************************************************************************)
\* what an event on a toast leaves alone
ToastFrame ==
    UNCHANGED <<limits, theme, exported, pointer, heap, tasks, lastDeletedTask, filterQuery, priorityFilter,
                sortOrder, board, form, taskToDelete, loadState, remote, creates,
                now>>
ToastOnly ==
    /\ hist' = NoOp
    /\ UNCHANGED <<limits, theme, exported, pointer, heap, tasks, lastDeletedTask, filterQuery, priorityFilter,
                   sortOrder, board, form, taskToDelete, loadState, remote, creates,
                   now>>

\* mouseenter on toast i: clearTimeout(timeoutId), the auto-hide timer
MouseEnter(i) ==
    /\ i \in 1..Len(toasts)
    /\ toasts[i].inDOM /\ ~toasts[i].hover
    /\ toasts' = [toasts EXCEPT ![i].hover = TRUE, ![i].timers = @ \ {1}]
    /\ ToastOnly

\* mouseleave on toast i: toast.timeoutId = setTimeout(hideToast, 1000)
MouseLeave(i) ==
    /\ i \in 1..Len(toasts)
    /\ toasts[i].inDOM /\ toasts[i].hover
    /\ toasts[i].nextTimer <= MaxLeaves + 1
    /\ toasts' = [toasts EXCEPT ![i].hover = FALSE,
                                ![i].timers = @ \cup {toasts[i].nextTimer},
                                ![i].timeoutId = toasts[i].nextTimer,
                                ![i].nextTimer = @ + 1]
    /\ ToastOnly

\* the pending timer t of toast i fires: hideToast(toast)
AutoHide(i, t) ==
    /\ i \in 1..Len(toasts)
    /\ toasts[i].inDOM
    /\ t \in toasts[i].timers
    /\ toasts' = [toasts EXCEPT ![i] = hideToast([@ EXCEPT !.timers = @ \ {t}])]
    /\ hist' = [op |-> "autohide", pre |-> <<>>, after |-> "other"]
    /\ ToastFrame

\* a click on the close button of toast i: hideToast(toast)
CloseClick(i) ==
    /\ i \in 1..Len(toasts)
    /\ toasts[i].inDOM
    /\ toasts' = [toasts EXCEPT ![i] = hideToast(@)]
    /\ ToastOnly

\* the 300 ms timer of a hideToast(toast) that has run fires
RemovalTimer(i) ==
    /\ i \in 1..Len(toasts)
    /\ toasts[i].hiding
    /\ ToastRemove(i)

(***************************************************************************)
(* The next-state relation.                                                *)
(***************************************************************************)
Next ==
    \/ InitApp
    \/ LoadDone
    \/ LoadFail
    \/ \E id \in CardIds \cup {""} : OpenModal(id)
    \/ CloseModal
    \/ \E title \in FormTitles, description \in FormDescriptions,
          priority \in FormPriorities, status \in FormStatuses,
          dueDate \in FormDueDates, subtasks \in FormSubtasks :
           HandleFormSubmit(title, description, priority, status, dueDate, subtasks)
    \/ \E files \in DroppedFiles : HandleFileDrop(files)
    \/ \E id \in CardIds : DuplicateTask(id)
    \/ \E id \in CardIds \cup {ForeignId}, zone \in Statuses : Drop(id, zone)
    \/ \E id \in CardIds : ShowDeleteConfirmation(id)
    \/ HideDeleteConfirmation
    \/ EscapeKey
    \/ ConfirmDelete
    \/ ClearBoard
    \/ \E i \in 1..(limits.deletes + limits.clears) : UndoClick(i)
    \/ \E i \in 1..(limits.deletes + limits.clears) : ToastRemove(i)

Spec == Init /\ [][Next]_vars

(***************************************************************************)
(* The view criteria: toggleSortOrder, the search box, the priority filter. *)
(***************************************************************************)
NextSortOrder(order) ==
    IF order = "none" THEN "asc" ELSE IF order = "asc" THEN "desc" ELSE "none"

\* a toggle that sorts by reordering state.tasks itself
ToggleSortOrderSortsStore ==
    /\ BoardReady
    /\ sortOrder' = NextSortOrder(sortOrder)
    /\ SetStore(heap, [i \in 1..Len(tasks) |-> tasks[Len(tasks) + 1 - i]], toasts)
    /\ RenderWith(filterQuery, priorityFilter, sortOrder')
    /\ hist' = NoOp
    /\ UNCHANGED <<limits, theme, exported, pointer, lastDeletedTask, filterQuery, priorityFilter, form, taskToDelete,
                   loadState, remote, creates, now>>

\* toggleSortOrder(): none -> asc -> desc -> none, then renderBoard()
ToggleSortOrder ==
    /\ BoardReady
    /\ sortOrder' = NextSortOrder(sortOrder)
    /\ SetStore(heap, tasks, toasts)
    /\ RenderWith(filterQuery, priorityFilter, sortOrder')
    /\ hist' = NoOp
    /\ UNCHANGED <<limits, theme, exported, pointer, lastDeletedTask, filterQuery, priorityFilter, form, taskToDelete,
                   loadState, remote, creates, now>>

\* the input handler of the search box
Search(q) ==
    /\ BoardReady
    /\ filterQuery' = q
    /\ SetStore(heap, tasks, toasts)
    /\ RenderWith(filterQuery', priorityFilter, sortOrder)
    /\ hist' = NoOp
    /\ UNCHANGED <<limits, theme, exported, pointer, lastDeletedTask, priorityFilter, sortOrder, form, taskToDelete,
                   loadState, remote, creates, now>>

\* the change handler of the priority filter
SetPriorityFilter(pf) ==
    /\ BoardReady
    /\ priorityFilter' = pf
    /\ SetStore(heap, tasks, toasts)
    /\ RenderWith(filterQuery, priorityFilter', sortOrder)
    /\ hist' = NoOp
    /\ UNCHANGED <<limits, theme, exported, pointer, lastDeletedTask, filterQuery, sortOrder, form, taskToDelete,
                   loadState, remote, creates, now>>

(***************************************************************************)
(* The board under the view criteria: the page has loaded a collection of   *)
(* up to MaxView documents, an earlier delete may have left its snapshot in *)
(* the register, and the user pins, drags, sorts, searches and filters.     *)
(***************************************************************************)
ViewTitles == <<<<"a">>, <<"B">>, <<"a", "b">>, <<"d">>>>
ViewDueDates == {EmptyDate, DateStr(1), DateStr(2)}
ViewDoc(i, due) ==
    [id |-> "r" \o ToString(i), title |-> ViewTitles[i], status |-> "todo",
     dueDate |-> due, createdAt |-> 0]
     @@ (IF i = 2 THEN [description |-> <<"y", "x">>, priority |-> "high"] ELSE <<>>)
ViewRemotes ==
    {<<>>}
    \cup {<<ViewDoc(1, d1)>> : d1 \in ViewDueDates}
    \cup {<<ViewDoc(1, d1), ViewDoc(2, d2)>> : d1 \in ViewDueDates, d2 \in ViewDueDates}
    \cup {<<ViewDoc(1, d1), ViewDoc(2, DateStr(2)), ViewDoc(3, DateStr(1))>> :
              d1 \in ViewDueDates}
ViewRegisters == {Null, <<[deletedAt |-> 0] @@ LoadedTask(ViewDoc(4, EmptyDate), 0)>>}
SearchInputs == {<<>>, <<"B">>, <<"X">>}
FilterInputs == {"all", "high"}

InitView ==
    /\ remote \in {r \in ViewRemotes : Len(r) <= MaxView}
    /\ heap = [i \in 1..Len(remote) |-> LoadedTask(remote[i], 0)]
    /\ tasks = [i \in 1..Len(remote) |-> i]
    /\ lastDeletedTask \in ViewRegisters
    /\ filterQuery = <<>>
    /\ priorityFilter = "all"
    /\ sortOrder = "none"
    /\ board = renderBoard(ListOf(heap, tasks), filterQuery, priorityFilter, sortOrder)
    /\ form = [open |-> FALSE, id |-> ""]
    /\ taskToDelete = ""
    /\ toasts = <<>>
    /\ loadState = "done"
    /\ creates = <<>>
    /\ now = 0
    /\ limits = [deletes |-> MaxDeletes, clears |-> MaxClears]
    /\ theme = DefaultTheme
    /\ exported = NoExport
    /\ pointer = NoPointer
    /\ hist = NoOp

NextView ==
    \/ \E id \in CardIds : TogglePin(id)
    \/ \E id \in CardIds \cup {ForeignId}, zone \in Statuses : Drop(id, zone)
    \/ ToggleSortOrder
    \/ \E q \in SearchInputs : Search(q)
    \/ \E pf \in FilterInputs : SetPriorityFilter(pf)

SpecView == InitView /\ [][NextView]_vars

(***************************************************************************)
(* The undo closures alone: the page loads, and the user drags, deletes,   *)
(* clears and undoes, with up to MaxUndoDeletes deletes.                   *)
(***************************************************************************)
InitUndo ==
    /\ heap = <<>>
    /\ tasks = <<>>
    /\ lastDeletedTask = Null
    /\ filterQuery = <<>>
    /\ priorityFilter = "all"
    /\ sortOrder = "none"
    /\ board = EmptyBoard
    /\ form = [open |-> FALSE, id |-> ""]
    /\ taskToDelete = ""
    /\ toasts = <<>>
    /\ loadState = "notStarted"
    /\ remote \in RemoteInits
    /\ creates = <<>>
    /\ now = 0
    /\ limits = [deletes |-> MaxUndoDeletes, clears |-> MaxClears]
    /\ theme = DefaultTheme
    /\ exported = NoExport
    /\ pointer = NoPointer
    /\ hist = NoOp

NextUndo ==
    \/ InitApp
    \/ LoadDone
    \/ LoadFail
    \/ \E id \in CardIds \cup {ForeignId}, zone \in Statuses : Drop(id, zone)
    \/ \E id \in CardIds : ShowDeleteConfirmation(id)
    \/ HideDeleteConfirmation
    \/ EscapeKey
    \/ ConfirmDelete
    \/ ClearBoard
    \/ \E i \in 1..(limits.deletes + limits.clears) : UndoClick(i)
    \/ \E i \in 1..(limits.deletes + limits.clears) : ToastRemove(i)

SpecUndo == InitUndo /\ [][NextUndo]_vars

(***************************************************************************)
(* Creation and the remote collection: the page loads, tasks are made by    *)
(* the form, by dropped files and by duplication, titles are edited on the  *)
(* cards, and addDoc and getDocs succeed or fail.                           *)
(***************************************************************************)
\* a dropped file whose name starts with a dot, next to the ordinary one
DotFiles ==
    {<<[name |-> <<".", "e">>, size |-> 1, type |-> "text/plain", lastModified |-> 0]>>}
InlineTitles == {<<>>, <<" ">>, <<"e">>}

\* the subtask lists getSubtasksFromUI finds in the form: one subtask, or
\* none (every subtask element removed, or none ever added)
SyncSubtasks == FormSubtasks \cup {<<>>}
NextSync ==
    \/ InitApp
    \/ LoadDone
    \/ LoadFail
    \/ \E id \in CardIds \cup {""} : OpenModal(id)
    \/ CloseModal
    \/ \E title \in FormTitles, description \in FormDescriptions,
          priority \in FormPriorities, status \in FormStatuses,
          dueDate \in FormDueDates, subtasks \in SyncSubtasks :
           HandleFormSubmit(title, description, priority, status, dueDate, subtasks)
    \/ \E files \in DroppedFiles \cup DotFiles : HandleFileDrop(files)
    \/ \E id \in CardIds : DuplicateTask(id)
    \/ \E a \in 1..MaxStore, raw \in InlineTitles : InlineEdit(a, raw)
    \/ \E i \in 1..MaxCreates, docId \in GeneratedIds : AddDocDone(i, docId)
    \/ \E i \in 1..MaxCreates : AddDocFail(i)

SpecSync == Init /\ [][NextSync]_vars

(***************************************************************************)
(* Drag gestures over a loaded board: something is dragged over the task    *)
(* lists, dropped on one, and the dragged card's dragend renders.           *)
(***************************************************************************)
NextDrag ==
    \/ \E c \in Statuses, k \in 1..MaxView : DragStart(c, k)
    \/ \E c \in Statuses, k \in 1..MaxView, zone \in Statuses, pos \in 0..MaxView :
           DragOver(<<c, k>>, zone, pos)
    \/ \E zone \in Statuses, pos \in 0..MaxView : DragOver(ForeignDrag, zone, pos)
    \/ \E id \in CardIds \cup {ForeignId}, zone \in Statuses : Drop(id, zone)
    \/ DragEnd

SpecDrag == InitView /\ [][NextDrag]_vars

(***************************************************************************)
(* One toast and its timers: a loaded board is cleared, and the toast is    *)
(* hovered, left, closed, undone, auto-hidden and removed.                  *)
(***************************************************************************)
NextToast ==
    \/ ClearBoard
    \/ \E i \in 1..MaxClears : UndoClick(i)
    \/ \E i \in 1..MaxClears : CloseClick(i)
    \/ \E i \in 1..MaxClears : MouseEnter(i)
    \/ \E i \in 1..MaxClears : MouseLeave(i)
    \/ \E i \in 1..MaxClears, t \in 1..(MaxLeaves + 1) : AutoHide(i, t)
    \/ \E i \in 1..MaxClears : RemovalTimer(i)

SpecToast == InitView /\ [][NextToast]_vars

\* the timers of a toast fire when they are due, and the pointer does not
\* stay over a toast forever
ToastFairness ==
    \A i \in 1..MaxClears :
        /\ WF_vars(\E t \in 1..(MaxLeaves + 1) : AutoHide(i, t))
        /\ WF_vars(RemovalTimer(i))
        /\ WF_vars(MouseLeave(i))

SpecToastFair == SpecToast /\ ToastFairness

(***************************************************************************)
(* The theme and the export: the page has loaded at most one task; the user *)
(* presses t or Alt+T, clicks the theme button, pins the card and exports,  *)
(* and the system colour scheme changes.                                    *)
(***************************************************************************)
ThemeFrame ==
    UNCHANGED <<limits, pointer, heap, tasks, lastDeletedTask, filterQuery, priorityFilter,
                sortOrder, board, form, taskToDelete, toasts, loadState, remote, creates,
                now>>

\* a keydown of t or T, with or without Alt, the focus in an input field or
\* not: the listener of DOMContentLoaded, then handleKeyboardShortcuts (whose
\* branches for the other keys return before the theme is read)
ThemeKeys == {"t", "T"}
KeyDown(key, altKey, inInput) ==
    /\ BoardReady
    /\ key \in ThemeKeys
    /\ LET afterAltT == IF altKey /\ ToLowerCase(key) = "t"
                        THEN toggleTheme(theme) ELSE theme
       IN  theme' = IF ~inInput /\ ToLowerCase(key) = "t"
                    THEN toggleTheme(afterAltT) ELSE afterAltT
    /\ hist' = NoOp
    /\ UNCHANGED exported
    /\ ThemeFrame

\* a click on the theme button
ThemeToggleClick ==
    /\ BoardReady
    /\ theme' = toggleTheme(theme)
    /\ hist' = NoOp
    /\ UNCHANGED exported
    /\ ThemeFrame

\* handleSystemThemeChange(event), the system now being on scheme
handleSystemThemeChange(scheme) ==
    /\ BoardReady
    /\ scheme \in THEMES
    /\ scheme # theme.system
    /\ LET changed == [theme EXCEPT !.system = scheme]
       IN  theme' = IF theme.stored = NoItem THEN setTheme(changed, scheme, FALSE)
                    ELSE changed
    /\ hist' = NoOp
    /\ UNCHANGED exported
    /\ ThemeFrame

\* exportBoard()
ExportBoard ==
    /\ BoardReady
    /\ exported' = [version |-> "1.0", tasks |-> JSONStringifyTasks(TaskList),
                    theme |-> theme.state, exportedAt |-> now]
    /\ hist' = OpPre("export")
    /\ UNCHANGED theme
    /\ ThemeFrame

StoredThemes == THEMES \cup {NoItem}

InitTheme ==
    /\ remote \in {r \in ViewRemotes : Len(r) <= 1}
    /\ heap = [i \in 1..Len(remote) |-> LoadedTask(remote[i], 0)]
    /\ tasks = [i \in 1..Len(remote) |-> i]
    /\ lastDeletedTask = Null
    /\ filterQuery = <<>>
    /\ priorityFilter = "all"
    /\ sortOrder = "none"
    /\ board = renderBoard(ListOf(heap, tasks), filterQuery, priorityFilter, sortOrder)
    /\ form = [open |-> FALSE, id |-> ""]
    /\ taskToDelete = ""
    /\ toasts = <<>>
    /\ loadState = "done"
    /\ creates = <<>>
    /\ now = 0
    /\ limits = [deletes |-> MaxDeletes, clears |-> MaxClears]
    /\ theme \in {ThemeAfterInit(stored, system) : stored \in StoredThemes, system \in THEMES}
    /\ exported = NoExport
    /\ pointer = NoPointer
    /\ hist = NoOp

NextTheme ==
    \/ \E key \in ThemeKeys, altKey \in BOOLEAN, inInput \in BOOLEAN :
           KeyDown(key, altKey, inInput)
    \/ ThemeToggleClick
    \/ \E scheme \in THEMES : handleSystemThemeChange(scheme)
    \/ ExportBoard
    \/ \E id \in CardIds : TogglePin(id)

SpecTheme == InitTheme /\ [][NextTheme]_vars

(***************************************************************************)
(* The insertion point: a drop list of up to MaxCards stacked cards, and    *)
(* dragover events at pointer heights up to MaxPointerY.                    *)
(***************************************************************************)
CardHeights == {2, 3}
ListTops == {-1, 0}

\* the boxes of cards of the heights hs stacked from top downwards
RECURSIVE Stacked(_, _)
Stacked(top, hs) ==
    IF hs = <<>> THEN <<>>
    ELSE <<[top |-> top, height |-> Head(hs)]>>
         \o Stacked(top + Head(hs) + CardGap, Tail(hs))

Layouts ==
    {Stacked(top, hs) : top \in ListTops,
                        hs \in UNION {[1..n -> CardHeights] : n \in 0..MaxCards}}

\* the dragover handler's call getDragAfterElement(zone, e.clientY)
PointerOver(y) ==
    /\ pointer' = [pointer EXCEPT !.y = y, !.called = TRUE,
                                  !.afterElement = getDragAfterElement(pointer.boxes, y)]
    /\ UNCHANGED <<limits, theme, exported, heap, tasks, lastDeletedTask, filterQuery,
                   priorityFilter, sortOrder, board, form, taskToDelete, toasts,
                   loadState, remote, creates, now, hist>>

InitPointer ==
    /\ remote = <<>>
    /\ heap = <<>>
    /\ tasks = <<>>
    /\ lastDeletedTask = Null
    /\ filterQuery = <<>>
    /\ priorityFilter = "all"
    /\ sortOrder = "none"
    /\ board = EmptyBoard
    /\ form = [open |-> FALSE, id |-> ""]
    /\ taskToDelete = ""
    /\ toasts = <<>>
    /\ loadState = "done"
    /\ creates = <<>>
    /\ now = 0
    /\ limits = [deletes |-> MaxDeletes, clears |-> MaxClears]
    /\ theme = DefaultTheme
    /\ exported = NoExport
    /\ pointer \in {[NoPointer EXCEPT !.boxes = l] : l \in Layouts}
    /\ hist = NoOp

NextPointer == \E y \in 0..MaxPointerY : PointerOver(y)

SpecPointer == InitPointer /\ [][NextPointer]_vars

(***************************************************************************)
(* Deletion on a loaded board of up to MaxView tasks: the user asks for the *)
(* delete of a card, cancels or confirms, and activates the undo buttons of *)
(* the toasts of up to MaxUndoDeletes deletes.                              *)
(***************************************************************************)
InitDelete ==
    /\ remote \in {r \in ViewRemotes : Len(r) <= MaxView}
    /\ heap = [i \in 1..Len(remote) |-> LoadedTask(remote[i], 0)]
    /\ tasks = [i \in 1..Len(remote) |-> i]
    /\ lastDeletedTask = Null
    /\ filterQuery = <<>>
    /\ priorityFilter = "all"
    /\ sortOrder = "none"
    /\ board = renderBoard(ListOf(heap, tasks), filterQuery, priorityFilter, sortOrder)
    /\ form = [open |-> FALSE, id |-> ""]
    /\ taskToDelete = ""
    /\ toasts = <<>>
    /\ loadState = "done"
    /\ creates = <<>>
    /\ now = 0
    /\ limits = [deletes |-> MaxUndoDeletes, clears |-> MaxClears]
    /\ theme = DefaultTheme
    /\ exported = NoExport
    /\ pointer = NoPointer
    /\ hist = NoOp

NextDelete ==
    \/ \E id \in CardIds : ShowDeleteConfirmation(id)
    \/ HideDeleteConfirmation
    \/ EscapeKey
    \/ ConfirmDelete
    \/ \E i \in 1..MaxUndoDeletes : UndoClick(i)
    \/ \E i \in 1..MaxUndoDeletes : ToastRemove(i)

SpecDelete == InitDelete /\ [][NextDelete]_vars

(***************************************************************************)
(* Properties.                                                             *)
(***************************************************************************)
\* C1: in every reachable state every task in the store has a status in
\* {todo, progress, done}
C1_StatusInColumns == \A a \in SeqRange(tasks) : heap[a].status \in Statuses

\* a loaded task that was dragged to "done" next to a task made by a file drop
C1_Witness ==
    /\ loadState = "done"
    /\ \E a, b \in SeqRange(tasks) :
          /\ heap[a].id = "r1" /\ heap[a].status = "done"
          /\ heap[b].id = "1" /\ Has(heap[b], "files") /\ heap[b].files # <<>>

\* C2: in every rendered column, whatever the sort order and the filters,
\* every pinned card comes before every unpinned card
C2_PinnedFirst ==
    \A c \in Statuses : \A i, j \in 1..Len(board[c]) :
        i < j => ~(~Pinned(board[c][i]) /\ Pinned(board[c][j]))

\* the task stored second is pinned and shown first, under a sort order
C2_Witness ==
    /\ sortOrder = "desc"
    /\ Len(tasks) = 2
    /\ \E c \in Statuses :
          /\ Len(board[c]) = 2
          /\ board[c][1].id = heap[tasks[2]].id /\ Pinned(board[c][1])
          /\ board[c][2].id = heap[tasks[1]].id /\ ~Pinned(board[c][2])

\* the store as a set of task values
TaskSet == {heap[a] : a \in SeqRange(tasks)}

\* C3: a delete directly followed by the undo of that delete leaves the set
\* of tasks the store had before the delete
C3_DeleteUndoRestores ==
    (hist.op = "undo" /\ hist.after = "delete") => TaskSet = SeqRange(hist.pre)

\* C4: a clear directly followed by the undo of that clear leaves exactly the
\* tasks the store had before the clear
C4_ClearUndoRestores ==
    (hist.op = "undo" /\ hist.after = "clear") => TaskList = hist.pre

\* a board of two tasks was cleared and restored
C4_Witness ==
    hist.op = "undo" /\ hist.after = "clear" /\ Len(hist.pre) = 2 /\ Len(tasks) = 2

\* what a drop of task id on column zone changes, and what it leaves alone
DropFrame(id, zone) ==
    LET found == Find(id)
    IN  /\ Len(tasks') = Len(tasks)
        /\ \A i \in 1..Len(tasks) :
              heap'[tasks'[i]] = IF tasks[i] = found
                                 THEN [heap[found] EXCEPT !.status = zone]
                                 ELSE heap[tasks[i]]
        /\ UNCHANGED <<filterQuery, priorityFilter, sortOrder, lastDeletedTask>>

\* C5: a drop of a task that is in the store sets its status to the column's
\* and changes no other field, no other task, not the size of the store, not
\* the view criteria and not the undo register
C5_DropSetsStatusOnly ==
    [][\A id \in TaskIds, zone \in Statuses : Drop(id, zone) => DropFrame(id, zone)]_vars

\* a pinned task was dropped on "done" while a sort order, a search and a
\* snapshot in the register were in place
C5_Witness ==
    /\ sortOrder = "asc"
    /\ filterQuery # <<>>
    /\ lastDeletedTask # Null
    /\ Len(tasks) = 2
    /\ \E a \in SeqRange(tasks) : heap[a].status = "done" /\ Pinned(heap[a])

\* milliseconds of the due date of a card that has one
DueMs(t) == NewDateGetTime(DueOf(t))

\* C6: under asc the dated cards of a column that share a pinned state are in
\* non-decreasing due-date order, and under desc in non-increasing order
C6_SortedByDueDate ==
    \A c \in Statuses : \A i, j \in 1..Len(board[c]) :
        (/\ i < j
         /\ Pinned(board[c][i]) = Pinned(board[c][j])
         /\ Truthy(DueOf(board[c][i])) /\ Truthy(DueOf(board[c][j])))
        => /\ sortOrder = "asc" => DueMs(board[c][i]) <= DueMs(board[c][j])
           /\ sortOrder = "desc" => DueMs(board[c][i]) >= DueMs(board[c][j])

\* C7: among the cards of a column that share a pinned state, under asc no
\* undated card comes before a dated one, and under desc none comes after
C7_UndatedAtTheEnd ==
    \A c \in Statuses : \A i, j \in 1..Len(board[c]) :
        (/\ i < j
         /\ Pinned(board[c][i]) = Pinned(board[c][j]))
        => /\ sortOrder = "asc" =>
                ~(~Truthy(DueOf(board[c][i])) /\ Truthy(DueOf(board[c][j])))
           /\ sortOrder = "desc" =>
                ~(Truthy(DueOf(board[c][i])) /\ ~Truthy(DueOf(board[c][j])))

\* C8: in every reachable state no two tasks of the store have the same id
C8_UniqueIds ==
    \A i, j \in 1..Len(tasks) : i # j => heap[tasks[i]].id # heap[tasks[j]].id

\* the tasks loadTasksFromFirebase builds from the documents docs
Loaded(docs, t) == [i \in 1..Len(docs) |-> LoadedTask(docs[i], t)]

C10_RegisterExclusive ==
    lastDeletedTask # Null => lastDeletedTask[1].id \notin TaskIds

\* C11: once a later delete or clear has raised its toast, the undo of an
\* earlier delete or clear leaves the task store as it is
C11_SecondCaptureDiscards ==
    [][\A i \in 1..(Len(toasts) - 1) : UndoClick(i) => TaskList' = TaskList]_vars

\* C12: once the undo button of a toast has been activated, a further
\* activation of the same button leaves the task store as it is
C12_UndoAppliesOnce ==
    [][\A i \in 1..Len(toasts) :
          (toasts[i].used /\ UndoClick(i)) => TaskList' = TaskList]_vars

\* C13: while the most recent delete or clear has not been undone, its undo
\* can still be activated: its undo button, the only caller of its closure,
\* is in the DOM
C13_RestoreRemainsAvailable ==
    (toasts # <<>> /\ ~toasts[Len(toasts)].used) => toasts[Len(toasts)].inDOM

\* a handler that mutates the task with a given id runs on an id that is not
\* in the store
MissingIdStep ==
    \/ \E id \in (CardIds \cup {ForeignId}) \ TaskIds, zone \in Statuses : Drop(id, zone)
    \/ \E id \in CardIds \ TaskIds : TogglePin(id) \/ DuplicateTask(id)
    \/ taskToDelete \notin TaskIds /\ ConfirmDelete
    \/ /\ form.id \notin TaskIds \cup {""}
       /\ \E title \in FormTitles, description \in FormDescriptions,
             priority \in FormPriorities, status \in FormStatuses,
             dueDate \in FormDueDates, subtasks \in FormSubtasks :
              HandleFormSubmit(title, description, priority, status, dueDate, subtasks)

\* C14: a drop, pin toggle, delete, duplicate or edit-form submit for an id
\* that is not in the store changes neither the task store, nor the undo
\* register, nor the remote collection (no document is sent to it)
C14_MissingIdIsNoOp ==
    [][MissingIdStep => /\ TaskList' = TaskList
                        /\ lastDeletedTask' = lastDeletedTask
                        /\ creates' = creates /\ remote' = remote]_vars

\* what the page holds: the store, the register, the board, the dialogs and
\* the view criteria
PageState ==
    <<TaskList, lastDeletedTask, board, form, taskToDelete, filterQuery,
      priorityFilter, sortOrder>>

\* C15: a rejected addDoc or getDocs changes nothing the page holds (the
\* store, the register, the board, the dialogs, the criteria), so every
\* local task stays as it is and every handler stays as available as it was;
\* after a failed create the task that submit made is in the store
C15_FailureKeepsLocalTasks ==
    [][/\ LoadFail => PageState' = PageState
       /\ \A i \in 1..Len(creates) :
             AddDocFail(i) => /\ PageState' = PageState
                              /\ creates[i].task \in TaskIds']_vars

\* the load has failed and the create has failed, and the task made by the
\* form is in the store
C15_Witness ==
    /\ loadState = "failed"
    /\ creates # <<>> /\ creates[1].answer = "failed"
    /\ \E a \in SeqRange(tasks) : heap[a].id = creates[1].task

\* C16: the local task of a form submit whose addDoc succeeded has the id
\* the collection generated for the document
C16_LocalIdIsRemoteId ==
    \A i \in 1..Len(creates) :
        creates[i].answer = "ok" => creates[i].task = creates[i].docId

\* C17: in every reachable state every task in the store has a title, and it
\* is not the empty string
C17_TitleNonEmpty ==
    \A a \in SeqRange(tasks) : Has(heap[a], "title") /\ heap[a].title # <<>>

\* q occurs in s when the case of letters is ignored
ContainsNoCase(s, q) ==
    \E k \in 0..(Len(s) - Len(q)) :
        \A j \in 1..Len(q) : LowerChar(s[k + j]) = LowerChar(q[j])

\* how many cards of column c show the task t
Shown(t, c) == Cardinality({k \in 1..Len(board[c]) : board[c][k] = t})

C20_NoUnhandledError == hist.after # "TypeError"

\* C21: no timer hides a toast while the pointer is over it
C21_NoAutoHideWhileHovered ==
    [][\A i \in 1..Len(toasts), t \in 1..(MaxLeaves + 1) :
          AutoHide(i, t) => ~toasts[i].hover]_vars

\* C27: right after a click on the close button or the undo button of a
\* toast, none of its timers that call hideToast is pending
C27_CloseCancelsTimers ==
    [][\A i \in 1..Len(toasts) :
          (CloseClick(i) \/ UndoClick(i)) => toasts'[i].timers = {}]_vars

\* a step of a drag gesture other than a drop on a column whose status is not
\* the dragged task's
DragStepWithoutStatusChange ==
    \/ \E c \in Statuses, k \in 1..MaxView : DragStart(c, k)
    \/ \E c \in Statuses, k \in 1..MaxView, zone \in Statuses, pos \in 0..MaxView :
           DragOver(<<c, k>>, zone, pos)
    \/ \E zone \in Statuses, pos \in 0..MaxView : DragOver(ForeignDrag, zone, pos)
    \/ DragEnd
    \/ \E id \in TaskIds : Drop(id, heap[Find(id)].status)
    \/ \E zone \in Statuses : Drop(ForeignId, zone)

\* C22: a drag start, a drag-over, a drag end and a drop on the task's own
\* column (or of something that is no task) leave every task of the store
\* with the fields it had
C22_DragChangesStoreOnlyAtDrop ==
    [][DragStepWithoutStatusChange => TaskList' = TaskList]_vars

\* a card has been dragged over another column: it sits in that list while
\* its task still has the status of the column it came from
C22_Witness ==
    /\ hist.op = "dragover" /\ hist.after = "ok"
    /\ \E c \in Statuses : \E k \in 1..Len(board[c]) :
          /\ board[c][k].status # c
          /\ \E a \in SeqRange(tasks) : heap[a] = board[c][k]

\* a step that changes a view criterion: a sort toggle, an input in the search
\* box, a change of the priority filter
ViewCriterionStep ==
    \/ ToggleSortOrder
    \/ \E q \in SearchInputs : Search(q)
    \/ \E pf \in FilterInputs : SetPriorityFilter(pf)

\* C23: sortOrder is one of none, asc, desc and changes only along the cycle
\* none -> asc -> desc -> none, so three toggles return to the start; a sort
\* toggle, a search change and a priority-filter change leave the tasks of
\* the store and the undo register as they were
C23_ViewCriteriaLeaveTasks ==
    [][/\ sortOrder' \in {"none", "asc", "desc"}
       /\ sortOrder' # sortOrder =>
              <<sortOrder, sortOrder'>> \in
                  {<<"none", "asc">>, <<"asc", "desc">>, <<"desc", "none">>}
       /\ ToggleSortOrder => sortOrder' # sortOrder
       /\ ViewCriterionStep =>
              /\ TaskList' = TaskList
              /\ lastDeletedTask' = lastDeletedTask]_vars

\* two toggles, a search and a filter change on a board of two tasks with a
\* snapshot in the register
C23_Witness ==
    /\ sortOrder = "desc"
    /\ filterQuery = <<"X">>
    /\ priorityFilter = "high"
    /\ Len(tasks) = 2
    /\ lastDeletedTask # Null

\* C24: a handler that changes a field of a task that stays in the store
\* leaves that task with an updatedAt that is not older than the clock
C24_ChangeStampsUpdatedAt ==
    [][\A i \in 1..Len(tasks) :
          (/\ Len(tasks') = Len(tasks)
           /\ TaskList'[i].id = TaskList[i].id
           /\ TaskList'[i] # TaskList[i])
          => (/\ Has(TaskList'[i], "updatedAt")
              /\ TaskList'[i].updatedAt >= now')]_vars

\* C25: a handler that puts one new task into the store (the form, a
\* duplicate, a dropped file; not a load) sends exactly one addDoc request,
\* and a step that adds no task sends none
C25_OneCreatePerNewTask ==
    [][/\ (Len(tasks') = Len(tasks) + 1 /\ hist'.op # "load")
           => Len(creates') = Len(creates) + 1
       /\ Len(tasks') = Len(tasks) => Len(creates') = Len(creates)]_vars

\* twice the height of the midpoint of box
Midpoint(box) == 2 * box.top + box.height
\* the cards whose midpoint is below the pointer
BelowPointer == {i \in 1..Len(pointer.boxes) : Midpoint(pointer.boxes[i]) > 2 * pointer.y}

\* C26: getDragAfterElement returns a card whose midpoint is below the
\* pointer and nearest to it among those, and returns no card exactly when
\* no card has its midpoint below the pointer; a card whose midpoint is at
\* the pointer's height is not returned
C26_NearestMidpointBelow ==
    pointer.called =>
        IF BelowPointer = {} THEN pointer.afterElement = 0
        ELSE /\ pointer.afterElement \in BelowPointer
             /\ \A j \in BelowPointer :
                    Midpoint(pointer.boxes[pointer.afterElement])
                        <= Midpoint(pointer.boxes[j])

\* the pointer is at the midpoint of the second of three cards, and the
\* third card is returned
C26_Witness ==
    /\ pointer.called
    /\ Len(pointer.boxes) = 3
    /\ Midpoint(pointer.boxes[2]) = 2 * pointer.y
    /\ pointer.afterElement = 3

\* C28: a press of t and a press of Alt+T, the focus not being in an input
\* field, each leave the theme that was not active before the press
C28_KeyTogglesTheme ==
    [][\A altKey \in BOOLEAN :
          KeyDown("t", altKey, FALSE) => theme'.attr # theme.attr]_vars

\* C29: the object exportBoard serializes holds the tasks of the store and
\* the active theme, and the export leaves the store, the view criteria and
\* the undo register as they were
C29_ExportIsCurrentState ==
    [][ExportBoard =>
          /\ exported'.tasks = JSONStringifyTasks(TaskList)
          /\ exported'.theme = theme.attr
          /\ TaskList' = TaskList
          /\ <<filterQuery', priorityFilter', sortOrder'>>
                 = <<filterQuery, priorityFilter, sortOrder>>
          /\ lastDeletedTask' = lastDeletedTask]_vars

\* C30: the undo of a clear keeps every task that is in the store when the
\* undo button is activated, and puts back the tasks the clear removed
C30_UndoClearKeepsLaterTasks ==
    [][\A i \in 1..Len(toasts) :
          (toasts[i].kind = "clear" /\ UndoClick(i)) =>
              /\ \A a \in SeqRange(tasks) : \E b \in SeqRange(tasks') : heap'[b] = heap[a]
              /\ \A a \in SeqRange(toasts[i].prev) :
                     \E b \in SeqRange(tasks') : heap'[b] = heap[a]]_vars

\* C31: the undo button of the notification raised by the delete of task X
\* either puts X back at the end of the store or leaves the store as it is
C31_UndoRestoresOwnTask ==
    [][\A i \in 1..Len(toasts) :
          (toasts[i].kind = "delete" /\ UndoClick(i)) =>
              \/ TaskList' = TaskList
              \/ /\ Len(tasks') = Len(tasks) + 1
                 /\ SubSeq(TaskList', 1, Len(tasks)) = TaskList
                 /\ TaskList'[Len(tasks')].id = toasts[i].raisedFor]_vars

\* C34: a task leaves the store (other than by a clear of the board or the
\* undo of one) only in a click on the confirm
\* button while that task is the pending delete request; the pending request
\* is set only by a click on a card's delete button, so it is a request that
\* no cancel, Escape or delete has dismissed; and the confirm click clears it
C34_DeleteOnlyByConfirmedRequest ==
    [][/\ (TaskIds \ TaskIds' # {} /\ ~ClearBoard /\ ~\E i \in 1..Len(toasts) : UndoClick(i)) =>
             /\ ConfirmDelete
             /\ TaskIds \ TaskIds' = {taskToDelete}
       /\ ConfirmDelete => taskToDelete' = ""
       /\ (HideDeleteConfirmation \/ EscapeKey) =>
             (taskToDelete' = "" /\ TaskList' = TaskList)
       /\ taskToDelete' \notin {"", taskToDelete} =>
             ShowDeleteConfirmation(taskToDelete')]_vars

\* the delete of r1 was asked for and cancelled, then the delete of r2 asked
\* for and confirmed: r1 is in the store, r2 is in the register, no request
\* is pending
C34_Witness ==
    /\ hist.op = "delete"
    /\ Len(hist.pre) = 2
    /\ TaskIds = {"r1"}
    /\ lastDeletedTask # Null /\ lastDeletedTask[1].id = "r2"
    /\ taskToDelete = ""

\* C32: after the submit of the edit form of a task of the store, the
\* subtasks of that task are the list that was in the form at the submit,
\* the empty list included
C32_EditSetsSubtasks ==
    [][\A title \in FormTitles, description \in FormDescriptions,
          priority \in FormPriorities, status \in FormStatuses,
          dueDate \in FormDueDates, subtasks \in SyncSubtasks :
          (/\ form.id \in TaskIds
           /\ HandleFormSubmit(title, description, priority, status, dueDate, subtasks))
          => LET k == CHOOSE k \in 1..Len(tasks) :
                         /\ TaskList[k].id = form.id
                         /\ \A j \in 1..(k - 1) : TaskList[j].id # form.id
             IN  TaskList'[k].subtasks = subtasks]_vars

\* C33: the document a form submit sends to the collection has the title,
\* the status, the priority and the description of the task the same submit
\* pushed into the store
C33_RemoteRecordMatchesLocal ==
    [][Len(creates') = Len(creates) + 1 =>
          LET doc == creates'[Len(creates')].doc
              task == TaskList'[Len(tasks')]
          IN  /\ Len(tasks') = Len(tasks) + 1
              /\ doc.title = task.title
              /\ doc.status = task.status
              /\ doc.priority = task.priority
              /\ doc.description = task.description]_vars

\* C35: when its timers fire and the pointer does not stay over it, every
\* toast in the DOM is removed from the DOM
C35_ToastEventuallyRemoved ==
    \A i \in 1..MaxClears :
        (Len(toasts) >= i /\ toasts[i].inDOM) ~> (Len(toasts) >= i /\ ~toasts[i].inDOM)

\* a toast was hovered and left, the timer of the leave has fired and the
\* toast is fading out
C35_Witness ==
    /\ Len(toasts) = 1
    /\ toasts[1].inDOM /\ toasts[1].hiding /\ ~toasts[1].hover
    /\ toasts[1].nextTimer > 2
    /\ ~toasts[1].used
    /\ hist.op = "autohide"

====
